---- MODULE Spec2Model ----
(***************************************************************************)
(* ACP Gestion (src/app2.py): the dues lifecycle of the association.       *)
(*                                                                         *)
(* The persistent store is the four tables socio, cuota, movimiento and    *)
(* comprobante.  Every request handler that reads and then writes is cut   *)
(* in two steps: the step that runs its queries (get_or_404, filter ...)   *)
(* and builds the pending rows in the session, and the step that flushes   *)
(* and commits them.  Other requests may commit between the two, because   *)
(* the handlers take no lock and check no version.  Rows written by a      *)
(* flush are invisible to the other sessions until the commit, so flush    *)
(* and commit are one step.  A request that raises before its commit       *)
(* leaves the store as it was (the session is rolled back).  An UPDATE is  *)
(* issued only for the columns whose assigned value differs from the value *)
(* the session loaded.  disco is the set of receipt files in the upload    *)
(* folder and hoy is the day date.today() returns.                         *)
(*                                                                         *)
(* Text (Cuota.periodo, the keys of month_key) is a tuple of one-character *)
(* strings, a date is the integer y*10000 + m*100 + d, a nullable date is  *)
(* <<>> or <<date>>, and an amount is an integer.                          *)
(***************************************************************************)
EXTENDS Integers, Sequences, FiniteSets, TLC

\* ------------------------------------------------------------------ bounds

\* The greatest primary key given to a socio row.
MaxSocios == 2
\* The greatest primary key given to a cuota row.
MaxCuotas == 2
\* The greatest primary key given to a movimiento or comprobante row.
MaxMovs == 2
\* The greatest primary key given to a user row.
MaxUsuarios == 3

\* The sessions that serve requests at the same time.
Clientes == {1, 2}
\* The period strings submitted to /cuotas.
Periodos == { <<"2","0","2","4","-","0","1">>, <<"2","0","2","4","-","0","2">>,
              <<"2","0","2","4","-","1","3">> }
\* The values of the cuota_mensual form field.
Montos == {0, 100}
\* The days on which requests are served (date.today()).
Dias == {20240215, 20240216}
\* The name submitted where names do not matter.
Nombre1 == <<"A","n","a">>
\* The names submitted for a member.
Nombres == { <<"A","n","a">>, <<"B","e","t","o">> }
\* The amounts submitted where two different positive amounts matter.
Importes == {0, 100, 150}
\* The period strings submitted where the parse of the period matters.
PeriodosCrudos ==
    { <<"2","0","2","4","-","0","1">>, <<"2","0","2","4","-","0","2">>,
      <<"2","0","2","4","-","1">>, <<"2","4","-","0","1">>,
      <<"2","0","2","4","-","1","3">>, <<"2","0","2","4","-","0","0">>,
      <<"2","0","2","4","0","1">>, <<"2","0","2","4","-","0","1","-","0","1">>,
      <<"e","n","e","-","0","1">>, <<>> }
\* The uploaded file names where the test of the extension matters.
Recibos ==
    { <<>>, <<"r",".","p","d","f">>, <<"r",".","j","p","g">>,
      <<"r",".","j","p","e","g">>, <<"r",".","p","n","g">>,
      <<"r",".","P","D","F">>, <<"r",".","e","x","e">>,
      <<"r",".","p","d","f",".","e","x","e">>, <<"p","d","f">>,
      <<".","p","d","f">> }
\* The values of the email form field of a member (empty: left blank).
Emails == { <<>>, <<" ">>, <<"a","@","b">> }
\* The values of the telefono form field of a member.
Telefonos == { <<>>, <<"+","5","4">> }
\* The values of the via form field of the reminders.
Vias == { <<"e","m","a","i","l">>, <<"w","h","a","t","s","a","p","p">>,
          <<"E","M","A","I","L">>, <<>> }
\* The reference dates the delinquency queries are evaluated at.
AsOfs == {20240110, 20240111, 20240210, 20240215}
\* The values of the tipo form field of a manual ledger entry.
Tipos == {"ingreso", "salida", "otro"}
\* The uploaded file names of a payment (<<>>: no file part in the request).
Archivos == { <<>>, <<"r",".","p","d","f">>, <<"r",".","e","x","e">> }

\* ------------------------------------------------------------------ text and dates

DigitChars == <<"0","1","2","3","4","5","6","7","8","9">>

IsDigit(ch) == \E i \in 1..Len(DigitChars) : DigitChars[i] = ch

DigitVal(ch) == (CHOOSE i \in 1..Len(DigitChars) : DigitChars[i] = ch) - 1

\* str.split(sep): the parts of s between the occurrences of sep.
RECURSIVE split(_, _)
split(s, sep) ==
    IF \A i \in 1..Len(s) : s[i] # sep
    THEN <<s>>
    ELSE LET k == CHOOSE i \in 1..Len(s) :
                    s[i] = sep /\ \A j \in 1..(i-1) : s[j] # sep
         IN  <<SubSeq(s, 1, k-1)>> \o split(SubSeq(s, k+1, Len(s)), sep)

\* str.rsplit(sep, 1): s cut at the last occurrence of sep.
rsplit1(s, sep) ==
    IF \A i \in 1..Len(s) : s[i] # sep
    THEN <<s>>
    ELSE LET k == CHOOSE i \in 1..Len(s) :
                    s[i] = sep /\ \A j \in (i+1)..Len(s) : s[j] # sep
         IN  <<SubSeq(s, 1, k-1), SubSeq(s, k+1, Len(s))>>

\* int(s) of a decimal numeral; -1 stands for ValueError.
RECURSIVE int(_)
int(s) ==
    IF Len(s) = 0 \/ \E i \in 1..Len(s) : ~IsDigit(s[i])
    THEN -1
    ELSE IF Len(s) = 1
         THEN DigitVal(s[1])
         ELSE int(SubSeq(s, 1, Len(s)-1)) * 10 + DigitVal(s[Len(s)])

\* n written with w digits, zero padded (strftime's %Y and %m).
RECURSIVE ZeroPad(_, _)
ZeroPad(n, w) ==
    IF w = 0 THEN <<>>
    ELSE ZeroPad(n \div 10, w-1) \o <<DigitChars[(n % 10) + 1]>>

date(y, m, d) == y * 10000 + m * 100 + d

YearOf(f) == f \div 10000

MonthOf(f) == (f \div 100) % 100

isleap(y) == y % 4 = 0 /\ (y % 100 # 0 \/ y % 400 = 0)

ultimo_dia_mes(y, m) ==
    IF m = 2 THEN (IF isleap(y) THEN 29 ELSE 28)
    ELSE IF m \in {4, 6, 9, 11} THEN 30 ELSE 31

Min(a, b) == IF a <= b THEN a ELSE b

\* month_key: 'YYYY-MM' of a date, strftime('%Y-%m') or to_char(.., 'YYYY-MM').
month_key(f) == ZeroPad(YearOf(f), 4) \o <<"-">> \o ZeroPad(MonthOf(f), 2)

\* The characters of the strings of the model, in code point order.
Alfabeto ==
    <<"-", ".", "0","1","2","3","4","5","6","7","8","9",
      "A","B","D","F","P", "_", "a","b","d","e","f","g","j","n","o","p","r","t","x">>

Ord(ch) == CHOOSE i \in 1..Len(Alfabeto) : Alfabeto[i] = ch

\* a < b for strings, as the database compares text (code point order).
RECURSIVE StrMenor(_, _)
StrMenor(a, b) ==
    IF Len(b) = 0 THEN FALSE
    ELSE IF Len(a) = 0 THEN TRUE
    ELSE IF a[1] # b[1] THEN Ord(a[1]) < Ord(b[1])
    ELSE StrMenor(Tail(a), Tail(b))

\* str.lower()
LowerCh(ch) ==
    IF ch = "A" THEN "a" ELSE IF ch = "B" THEN "b" ELSE IF ch = "D" THEN "d"
    ELSE IF ch = "F" THEN "f" ELSE IF ch = "P" THEN "p"
    ELSE IF ch = "E" THEN "e" ELSE IF ch = "I" THEN "i"
    ELSE IF ch = "L" THEN "l" ELSE IF ch = "M" THEN "m" ELSE ch

lower(s) == [i \in 1..Len(s) |-> LowerCh(s[i])]

\* str.strip('._'): s without the dots and underscores at its ends.
RECURSIVE strip(_)
strip(s) ==
    IF Len(s) = 0 THEN s
    ELSE IF s[1] \in {".", "_"} THEN strip(Tail(s))
    ELSE IF s[Len(s)] \in {".", "_"} THEN strip(SubSeq(s, 1, Len(s)-1))
    ELSE s

\* str.strip(): s without the spaces at its ends.
RECURSIVE strip_espacios(_)
strip_espacios(s) ==
    IF Len(s) = 0 THEN s
    ELSE IF s[1] = " " THEN strip_espacios(Tail(s))
    ELSE IF s[Len(s)] = " " THEN strip_espacios(SubSeq(s, 1, Len(s)-1))
    ELSE s

\* (request.form.get(k) or '').strip() or None, with <<>> for None.
campo_opcional(v) == strip_espacios(v)

\* werkzeug's secure_filename for names made of letters, digits, '.', '-'
\* and '_': those characters are kept and the result is stripped of '.'
\* and '_' at its ends.
secure_filename(fn) == strip(fn)

ALLOWED_EXTS == { <<"p","d","f">>, <<"j","p","g">>, <<"j","p","e","g">>, <<"p","n","g">> }

\* A test of the name that only looks for a dot.
allowed_file_sin_ext(fn) == \E i \in 1..Len(fn) : fn[i] = "."

\* allowed_file: the name has a dot and its last extension, in lower case,
\* is allowed.
allowed_file(fn) ==
    /\ \E i \in 1..Len(fn) : fn[i] = "."
    /\ lower(rsplit1(fn, ".")[2]) \in ALLOWED_EXTS

\* ------------------------------------------------------------------ state

VARIABLES
    usuario,      \* table user: records [id, role]
    socio,        \* table socio: records [id, nombre, email, telefono, activo, cuota_mensual]
    cuota,        \* table cuota: records [id, socio_id, periodo, monto, fecha_venc, pagada, fecha_pago]
    movimiento,   \* table movimiento: records [id, tipo, categoria, origen, socio_id, cuota_id, monto, fecha]
    comprobante,  \* table comprobante: records [id, filename, mov_id, cuota_id]
    disco,        \* the files in UPLOAD_FOLDER: paths <<cuota id, file name>>
    hoy,          \* date.today()
    req,          \* per session: the request in progress and what it has read
    resp          \* history: the request that finished last, and its outcome

vars == <<usuario, socio, cuota, movimiento, comprobante, disco, hoy, req, resp>>

Idle == [op |-> "idle"]

\* The next value of an integer primary key: one more than the greatest in use.
RECURSIVE MaxId(_)
MaxId(rows) ==
    IF rows = {} THEN 0
    ELSE LET r == CHOOSE x \in rows : \A y \in rows : y.id <= x.id
         IN  r.id

NextId(rows) == MaxId(rows) + 1

RECURSIVE SumMonto(_)
SumMonto(rows) ==
    IF rows = {} THEN 0
    ELSE LET r == CHOOSE x \in rows : TRUE
         IN  r.monto + SumMonto(rows \ {r})

\* The day the application is started.
PrimerDia == CHOOSE d \in Dias : \A e \in Dias : d <= e

\* The user seeded by init_db_and_migrate.
Admin == [id |-> 1, role |-> "admin"]

Init ==
    /\ usuario = {Admin}
    /\ socio = {}
    /\ cuota = {}
    /\ movimiento = {}
    /\ comprobante = {}
    /\ disco = {}
    /\ hoy = PrimerDia
    /\ req = [cl \in Clientes |-> Idle]
    /\ resp = [op |-> "none"]

AllIdle == \A cl \in Clientes : req[cl] = Idle

\* A request is served by the first free session (the sessions are
\* interchangeable).
Libre(cl) ==
    /\ req[cl] = Idle
    /\ \A o \in Clientes : o < cl => req[o] # Idle

\* The row of table rows with primary key id (Model.query.get).
ById(rows, id) == CHOOSE r \in rows : r.id = id

Existe(rows, id) == \E r \in rows : r.id = id

\* ------------------------------------------------------------------ usuarios

\* The values of the role form field of a user.
Roles == {"admin", "operador"}

\* POST /usuarios/nuevo: a user with the role of the form.
nuevo_usuario(role) ==
    /\ NextId(usuario) <= MaxUsuarios
    /\ usuario' = usuario \cup {[id |-> NextId(usuario), role |-> role]}
    /\ UNCHANGED <<socio, cuota, movimiento, comprobante, disco, hoy, req>>

\* User.query.filter(User.role=='admin', User.id!=u.id).count()
otros_admins(us, u) ==
    Cardinality({o \in us : o.role = "admin" /\ o.id # u.id})

\* ------------------------------------------------------------------ socios

\* POST /socios: a new member.
socios(nombre, email, telefono, activo, cm) ==
    /\ NextId(socio) <= MaxSocios
    /\ socio' = socio \cup
          {[id |-> NextId(socio), nombre |-> nombre,
            email |-> campo_opcional(email),
            telefono |-> campo_opcional(telefono),
            activo |-> activo, cuota_mensual |-> cm]}
    /\ UNCHANGED <<usuario, cuota, movimiento, comprobante, disco, hoy, req>>

\* An edit that also rewrites the amount of the member's unpaid dues.
editar_socio_y_cuotas(socio_id, nombre, email, telefono, activo, cm) ==
    /\ socio' = {IF s.id = socio_id
                 THEN [s EXCEPT !.nombre = nombre,
                                !.email = campo_opcional(email),
                                !.telefono = campo_opcional(telefono),
                                !.activo = activo, !.cuota_mensual = cm]
                 ELSE s : s \in socio}
    /\ cuota' = {IF c.socio_id = socio_id /\ ~c.pagada
                 THEN [c EXCEPT !.monto = cm] ELSE c : c \in cuota}
    /\ UNCHANGED <<usuario, movimiento, comprobante, disco, hoy, req>>

\* POST /socios/<id>/editar: every field is overwritten from the form; 404
\* for an unknown id.
editar_socio(socio_id, nombre, email, telefono, activo, cm) ==
    /\ socio' = {IF s.id = socio_id
                 THEN [s EXCEPT !.nombre = nombre,
                                !.email = campo_opcional(email),
                                !.telefono = campo_opcional(telefono),
                                !.activo = activo, !.cuota_mensual = cm]
                 ELSE s : s \in socio}
    /\ UNCHANGED <<usuario, cuota, movimiento, comprobante, disco, hoy, req>>

\* GET /socios/<id>/eliminar: the row is deleted and nothing else; no
\* relationship cascades to cuota or movimiento, and the default SQLite store
\* does not enforce the foreign keys (no PRAGMA foreign_keys in the source).
\* 404 for an unknown id.
eliminar_socio(socio_id) ==
    /\ socio' = {s \in socio : s.id # socio_id}
    /\ UNCHANGED <<usuario, cuota, movimiento, comprobante, disco, hoy, req>>

\* ------------------------------------------------------------------ cuotas

\* y, m = map(int, periodo.split('-')) and date(y, m, ..) raise nothing.
PeriodoValido(periodo) ==
    LET parts == split(periodo, "-")
    IN  /\ Len(parts) = 2
        /\ int(parts[1]) \in 1..9999
        /\ int(parts[2]) \in 1..12

\* The due date put on the last day of the month.
VencimientoFinDeMes(periodo) ==
    LET parts == split(periodo, "-")
    IN  date(int(parts[1]), int(parts[2]),
             ultimo_dia_mes(int(parts[1]), int(parts[2])))

\* venc = date(y, m, min(10, ultimo_dia_mes(y, m)))
Vencimiento(periodo) ==
    LET parts == split(periodo, "-")
        y == int(parts[1])
        m == int(parts[2])
    IN  date(y, m, Min(10, ultimo_dia_mes(y, m)))

\* The member query without the filter on activo.
ActivosSinFiltro(ss) == {s \in ss : s.cuota_mensual > 0}

\* Socio.query.filter(Socio.activo==True, Socio.cuota_mensual>0)
Activos(ss) == {s \in ss : s.activo /\ s.cuota_mensual > 0}

\* Cuota.query.filter_by(socio_id=.., periodo=..).first() finds a row.
ExisteCuota(cs, socio_id, periodo) ==
    \E c \in cs : c.socio_id = socio_id /\ c.periodo = periodo

\* The loop without the lookup of an existing Cuota.
SinCuotaSinConsulta(ss, cs, periodo) == Activos(ss)

\* The members the loop adds a Cuota for.
SinCuota(ss, cs, periodo) ==
    {s \in Activos(ss) : ~ExisteCuota(cs, s.id, periodo)}

\* The counter incremented for every member of the query.
CreadasPorSocio(ss, cs, periodo) == Cardinality(Activos(ss))

\* creadas: incremented once for each Cuota the loop adds.
Creadas(ss, cs, periodo) == Cardinality(SinCuota(ss, cs, periodo))

\* The table without uq_cuota_socio_periodo: no insert is rejected.
SinRestriccion(rows, cs) == FALSE

\* uq_cuota_socio_periodo rejects the insert of rows into cs.
ViolaUnicidad(rows, cs) ==
    \E n \in rows : ExisteCuota(cs, n.socio_id, n.periodo)

\* The pending rows with their primary keys, given in the order of socio_id.
ConIds(rows, cs) ==
    {[id |-> MaxId(cs) + Cardinality({o \in rows : o.socio_id <= n.socio_id}),
      socio_id |-> n.socio_id, periodo |-> n.periodo, monto |-> n.monto,
      fecha_venc |-> n.fecha_venc, pagada |-> FALSE, fecha_pago |-> <<>>]
     : n \in rows}

\* POST /cuotas, up to the commit: parse the period, query the members, add
\* a Cuota for each one that has none.  A period that does not parse raises
\* (ValueError) before anything is added.
cuotas_begin(cl, periodo) ==
    /\ Libre(cl)
    /\ PeriodoValido(periodo) =>
          MaxId(cuota) + Cardinality(SinCuota(socio, cuota, periodo)) <= MaxCuotas
    /\ IF PeriodoValido(periodo)
       THEN req' = [req EXCEPT ![cl] =
                  [op |-> "cuotas", periodo |-> periodo,
                   nuevas |-> {[socio_id |-> s.id, periodo |-> periodo,
                                monto |-> s.cuota_mensual,
                                fecha_venc |-> Vencimiento(periodo)]
                               : s \in SinCuota(socio, cuota, periodo)},
                   creadas |-> Creadas(socio, cuota, periodo)]]
       ELSE UNCHANGED req
    /\ UNCHANGED <<usuario, socio, cuota, movimiento, comprobante, disco, hoy>>

\* POST /cuotas, db.session.commit(): the inserts and the redirect, or
\* IntegrityError: nothing is inserted and the exception leaves the view.
cuotas_commit(cl) ==
    /\ req[cl].op = "cuotas"
    /\ MaxId(cuota) + req[cl].creadas <= MaxCuotas
    /\ IF ViolaUnicidad(req[cl].nuevas, cuota)
       THEN /\ UNCHANGED cuota
            /\ req' = [req EXCEPT ![cl] = [op |-> "IntegrityError"]]
       ELSE /\ cuota' = cuota \cup ConIds(req[cl].nuevas, cuota)
            /\ req' = [req EXCEPT ![cl] = Idle]
    /\ UNCHANGED <<usuario, socio, movimiento, comprobante, disco, hoy>>

\* The IntegrityError that left cuotas() is answered with status 500 and the
\* session is discarded; the store is as the failed commit left it.
cuotas_error(cl) ==
    /\ req[cl].op = "IntegrityError"
    /\ req' = [req EXCEPT ![cl] = Idle]
    /\ UNCHANGED <<usuario, socio, cuota, movimiento, comprobante, disco, hoy>>

\* ------------------------------------------------------------------ pagar_cuota

\* Movimiento.query.filter_by(cuota_id=.., origen='cuota')
MovsCuota(ms, cuota_id) ==
    {m \in ms : m.cuota_id = <<cuota_id>> /\ m.origen = "cuota"}

\* Cuota.comprobantes: the Comprobante rows whose cuota_id is this due.
CompsCuota(ks, cuota_id) == {k \in ks : k.cuota_id = <<cuota_id>>}

\* Movimiento.comprobantes: the Comprobante rows whose mov_id is this entry.
CompsMov(ks, mov_id) == {k \in ks : k.mov_id = <<mov_id>>}

\* A lookup that falls back to the row of greatest key when id is unknown.
get_o_ultima(rows, id) ==
    IF Existe(rows, id) THEN <<ById(rows, id)>>
    ELSE IF rows = {} THEN <<>> ELSE <<ById(rows, MaxId(rows))>>

\* Model.query.get_or_404(id): <<the row>>, or <<>> for abort(404).
get_or_404(rows, id) ==
    IF Existe(rows, id) THEN <<ById(rows, id)>> ELSE <<>>

\* abort(404) of get_or_404: the request is answered with status 404.
NotFound(ruta, id) == [op |-> "NotFound", ruta |-> ruta, id |-> id]

\* The response 404 leaves the server.
no_encontrado(cl) ==
    /\ req[cl].op = "NotFound"
    /\ req' = [req EXCEPT ![cl] = Idle]
    /\ UNCHANGED <<usuario, socio, cuota, movimiento, comprobante, disco, hoy>>

\* POST /cuotas/<id>/pagar, first part: get_or_404 and
\* c.pagada = True; c.fecha_pago = date.today() on the loaded row.
pagar_cuota_begin(cl, cuota_id) ==
    /\ Libre(cl)
    /\ NextId(movimiento) <= MaxMovs
    /\ NextId(comprobante) <= MaxMovs
    /\ LET c == get_or_404(cuota, cuota_id)
       IN  IF c # <<>>
           THEN req' = [req EXCEPT ![cl] =
                      [op |-> "pagar_cuota", id |-> cuota_id, c |-> c[1],
                       fecha |-> hoy]]
           ELSE req' = [req EXCEPT ![cl] = NotFound("pagar_cuota", cuota_id)]
    /\ UNCHANGED <<usuario, socio, cuota, movimiento, comprobante, disco, hoy>>

\* The Movimiento that pagar_cuota adds for the loaded row c.
MovDeCuota(id, c, fecha) ==
    [id |-> id, tipo |-> "ingreso", categoria |-> "Cuotas socios",
     origen |-> "cuota", socio_id |-> <<c.socio_id>>, cuota_id |-> <<c.id>>,
     monto |-> c.monto, fecha |-> fecha]

\* The row of c after c.pagada = True; c.fecha_pago = date.today().
Pagada(c, fecha) == [c EXCEPT !.pagada = TRUE, !.fecha_pago = <<fecha>>]

\* The row of c after c.pagada = False; c.fecha_pago = None.
Impaga(c) == [c EXCEPT !.pagada = FALSE, !.fecha_pago = <<>>]

\* The UPDATE of a flush: the columns of the loaded row c whose value in
\* nueva differs from the loaded one are written to the row with c's key;
\* a column that was assigned the value it was loaded with is not written.
Update(cs, c, nueva) ==
    {IF r.id = c.id
     THEN [r EXCEPT !.pagada = IF nueva.pagada = c.pagada THEN @ ELSE nueva.pagada,
                    !.fecha_pago = IF nueva.fecha_pago = c.fecha_pago THEN @
                                   ELSE nueva.fecha_pago]
     ELSE r : r \in cs}

\* An UPDATE that is not restricted to the loaded row.
MarcarPagadaTodas(cs, c, fecha) == {Pagada(r, fecha) : r \in cs}

\* The UPDATE that the flush of pagar_cuota issues for the loaded row c.
MarcarPagada(cs, c, fecha) == Update(cs, c, Pagada(c, fecha))

\* f and f.filename and allowed_file(f.filename); <<>> is a request without
\* a file.
ConComprobante(archivo) == archivo # <<>> /\ allowed_file(archivo)

\* An error of f.save that is swallowed.
FallaIgnorada(archivo, guarda) == FALSE

\* f.save(dst) is called and raises (guarda: the file store accepts the
\* write).
FallaGuardar(archivo, guarda) == ConComprobante(archivo) /\ ~guarda

\* dst: the path cuota_<id>_<secure file name> in UPLOAD_FOLDER.
Destino(c, archivo) == <<c.id, secure_filename(archivo)>>

\* POST /cuotas/<id>/pagar, second part: the Movimiento dated date.today(),
\* the flush, f.save(dst) and the Comprobante for an uploaded file with an
\* allowed name, and the commit.  guarda is whether f.save succeeds; when it
\* raises, nothing is committed and the exception leaves the view.
pagar_cuota_commit(cl, archivo, guarda) ==
    /\ req[cl].op = "pagar_cuota"
    /\ NextId(movimiento) <= MaxMovs
    /\ NextId(comprobante) <= MaxMovs
    /\ IF FallaGuardar(archivo, guarda)
       THEN /\ req' = [req EXCEPT ![cl] = [op |-> "OSError", id |-> req[cl].id]]
            /\ UNCHANGED <<cuota, movimiento, comprobante, disco>>
       ELSE /\ cuota' = MarcarPagada(cuota, req[cl].c, req[cl].fecha)
            /\ movimiento' = movimiento \cup
                  {MovDeCuota(NextId(movimiento), req[cl].c, hoy)}
            /\ IF ConComprobante(archivo)
               THEN /\ disco' = IF guarda
                             THEN disco \cup {Destino(req[cl].c, archivo)}
                             ELSE disco
                    /\ comprobante' = comprobante \cup
                          {[id |-> NextId(comprobante),
                            filename |-> Destino(req[cl].c, archivo),
                            mov_id |-> <<>>, cuota_id |-> <<req[cl].c.id>>]}
               ELSE UNCHANGED <<disco, comprobante>>
            /\ req' = [req EXCEPT ![cl] = Idle]
    /\ UNCHANGED <<usuario, socio, hoy>>

\* The exception of f.save that left pagar_cuota() is answered with status
\* 500 and the session is discarded.
pagar_cuota_error(cl) ==
    /\ req[cl].op = "OSError"
    /\ req' = [req EXCEPT ![cl] = Idle]
    /\ UNCHANGED <<usuario, socio, cuota, movimiento, comprobante, disco, hoy>>

\* ------------------------------------------------------------------ revertir_pago

\* .order_by(Movimiento.id.desc()).first(): <<>> or <<the row of greatest id>>.
UltimoMov(ms) ==
    IF ms = {} THEN <<>> ELSE <<ById(ms, MaxId(ms))>>

\* A reversal whose os.remove is outside any try: a file that is missing
\* or cannot be removed raises, and the exception leaves the view.
revertir_pago_begin_sin_try(cl, cuota_id, borra) ==
    /\ Libre(cl)
    /\ IF get_or_404(cuota, cuota_id) # <<>>
       THEN LET c == get_or_404(cuota, cuota_id)[1]
                mov == UltimoMov(MovsCuota(movimiento, c.id))
                comps == CompsCuota(comprobante, c.id) \cup
                         (IF mov = <<>> THEN {}
                          ELSE CompsMov(comprobante, mov[1].id))
            IN  IF \/ comps # {} /\ ~borra
                   \/ \E k \in comps : k.filename \notin disco
                   \/ \E k1 \in comps, k2 \in comps :
                         k1 # k2 /\ k1.filename = k2.filename
                THEN /\ req' = [req EXCEPT ![cl] = [op |-> "OSError", id |-> cuota_id]]
                     /\ UNCHANGED disco
                ELSE /\ req' = [req EXCEPT ![cl] =
                           [op |-> "revertir_pago", id |-> cuota_id, c |-> c,
                            comps |-> {k.id : k \in comps},
                            mov |-> IF mov = <<>> THEN <<>> ELSE <<mov[1].id>>]]
                     /\ disco' = disco \ {k.filename : k \in comps}
       ELSE /\ req' = [req EXCEPT ![cl] = NotFound("revertir_pago", cuota_id)]
            /\ UNCHANGED disco
    /\ UNCHANGED <<usuario, socio, cuota, movimiento, comprobante, hoy>>

\* GET /cuotas/<id>/revertir, up to the commit: get_or_404; the files of the
\* receipts of the due, and of the receipts of its latest entry, are removed
\* when os.remove succeeds (borra) and left when it fails, the failure and
\* the missing file being ignored; those rows and that entry are marked for
\* deletion.
revertir_pago_begin(cl, cuota_id, borra) ==
    /\ Libre(cl)
    /\ IF get_or_404(cuota, cuota_id) # <<>>
       THEN LET c == get_or_404(cuota, cuota_id)[1]
                mov == UltimoMov(MovsCuota(movimiento, c.id))
                comps == CompsCuota(comprobante, c.id) \cup
                         (IF mov = <<>> THEN {}
                          ELSE CompsMov(comprobante, mov[1].id))
            IN  /\ req' = [req EXCEPT ![cl] =
                      [op |-> "revertir_pago", id |-> cuota_id, c |-> c,
                       comps |-> {k.id : k \in comps},
                       mov |-> IF mov = <<>> THEN <<>> ELSE <<mov[1].id>>]]
                /\ disco' = IF borra THEN disco \ {k.filename : k \in comps}
                            ELSE disco
       ELSE /\ req' = [req EXCEPT ![cl] = NotFound("revertir_pago", cuota_id)]
            /\ UNCHANGED disco
    /\ UNCHANGED <<usuario, socio, cuota, movimiento, comprobante, hoy>>

\* A reversal that gives up, changing nothing, when it found no entry.
revertir_solo_con_mov(cl) ==
    /\ req[cl].op = "revertir_pago"
    /\ comprobante' = {k \in comprobante : k.id \notin req[cl].comps}
    /\ movimiento' = {m \in movimiento : <<m.id>> # req[cl].mov}
    /\ cuota' = IF req[cl].mov = <<>> THEN cuota
                ELSE Update(cuota, req[cl].c, Impaga(req[cl].c))
    /\ req' = [req EXCEPT ![cl] = Idle]
    /\ UNCHANGED <<usuario, socio, disco, hoy>>

\* GET /cuotas/<id>/revertir, db.session.commit(): the DELETEs by primary
\* key (a row that is already gone is not an error) and the UPDATE of the
\* due.
revertir_pago_commit(cl) ==
    /\ req[cl].op = "revertir_pago"
    /\ comprobante' = {k \in comprobante : k.id \notin req[cl].comps}
    /\ movimiento' = {m \in movimiento : <<m.id>> # req[cl].mov}
    /\ cuota' = Update(cuota, req[cl].c, Impaga(req[cl].c))
    /\ req' = [req EXCEPT ![cl] = Idle]
    /\ UNCHANGED <<usuario, socio, disco, hoy>>

\* ------------------------------------------------------------------ eliminar_usuario

\* GET /usuarios/<uid>/eliminar asked in the session of user sesion, up to
\* the commit: refused for the user of the session, 404 for an unknown id,
\* refused for an admin when the count of the other admins is zero;
\* otherwise the row is marked for deletion.
eliminar_usuario_begin(cl, sesion, uid) ==
    /\ Libre(cl)
    /\ IF uid = sesion
       THEN UNCHANGED req
       ELSE IF get_or_404(usuario, uid) = <<>>
       THEN req' = [req EXCEPT ![cl] = NotFound("eliminar_usuario", uid)]
       ELSE LET u == get_or_404(usuario, uid)[1]
            IN  IF u.role = "admin" /\ otros_admins(usuario, u) = 0
                THEN UNCHANGED req
                ELSE req' = [req EXCEPT ![cl] =
                        [op |-> "eliminar_usuario", id |-> uid,
                         sesion |-> sesion]]
    /\ UNCHANGED <<usuario, socio, cuota, movimiento, comprobante, disco, hoy>>

\* GET /usuarios/<uid>/eliminar, db.session.delete(u); db.session.commit().
eliminar_usuario_commit(cl) ==
    /\ req[cl].op = "eliminar_usuario"
    /\ usuario' = {u \in usuario : u.id # req[cl].id}
    /\ req' = [req EXCEPT ![cl] = Idle]
    /\ UNCHANGED <<socio, cuota, movimiento, comprobante, disco, hoy>>

\* ------------------------------------------------------------------ movimientos

\* POST /movimientos: a manual entry, with the column default origen
\* 'manual' and no member or due; an invalid tipo is refused.
movimientos(tipo, monto) ==
    /\ NextId(movimiento) <= MaxMovs
    /\ IF tipo \in {"ingreso", "salida"}
       THEN movimiento' = movimiento \cup
               {[id |-> NextId(movimiento), tipo |-> tipo,
                 categoria |-> "", origen |-> "manual",
                 socio_id |-> <<>>, cuota_id |-> <<>>,
                 monto |-> monto, fecha |-> hoy]}
       ELSE UNCHANGED movimiento
    /\ UNCHANGED <<usuario, socio, cuota, comprobante, disco, hoy, req>>

\* GET /movimientos/<id>/eliminar: the files and rows of the receipts of the
\* entry and the entry are deleted; 404 for an unknown id.
eliminar_movimiento(mov_id) ==
    /\ disco' = disco \ {k.filename : k \in CompsMov(comprobante, mov_id)}
    /\ comprobante' = comprobante \ CompsMov(comprobante, mov_id)
    /\ movimiento' = {m \in movimiento : m.id # mov_id}
    /\ UNCHANGED <<usuario, socio, cuota, hoy, req>>

\* ------------------------------------------------------------------ clock

\* Midnight: date.today() returns the next day from now on.
medianoche ==
    /\ hoy + 1 \in Dias
    /\ hoy' = hoy + 1
    /\ UNCHANGED <<usuario, socio, cuota, movimiento, comprobante, disco, req>>

\* ------------------------------------------------------------------ morosidad

\* The filter with the due date compared by <= instead of <.
VencidasHasta(cs, asof) == {c \in cs : ~c.pagada /\ c.fecha_venc <= asof}

\* .filter(Cuota.pagada == False, Cuota.fecha_venc < hoy)
Vencidas(cs, asof) == {c \in cs : ~c.pagada /\ c.fecha_venc < asof}

\* The query q of morosidad: the members joined with their overdue dues,
\* grouped by member.
Deudores(ss, cs, asof) ==
    {[socio_id |-> s.id, socio_nombre |-> s.nombre,
      deuda_total |-> SumMonto({c \in Vencidas(cs, asof) : c.socio_id = s.id}),
      cuotas_vencidas |-> Cardinality({c \in Vencidas(cs, asof) : c.socio_id = s.id})]
     : s \in {t \in ss : \E c \in Vencidas(cs, asof) : c.socio_id = t.id}}

\* The query q_periodos of morosidad: the overdue dues grouped by the month
\* of their due date.
PorPeriodo(cs, asof) ==
    {[periodo |-> k,
      importe |-> SumMonto({c \in Vencidas(cs, asof) : month_key(c.fecha_venc) = k})]
     : k \in {month_key(c.fecha_venc) : c \in Vencidas(cs, asof)}}

\* The orders in which a query can return rows.
Permutaciones(rows) ==
    {f \in [1..Cardinality(rows) -> rows] :
        \A i \in DOMAIN f, j \in DOMAIN f : i # j => f[i] # f[j]}

\* The rows of q returned in the order of the primary key of the member.
deudores_por_id(ss, cs, asof) ==
    {f \in Permutaciones(Deudores(ss, cs, asof)) :
        \A i \in DOMAIN f, j \in DOMAIN f :
           i < j => f[i].socio_id < f[j].socio_id}

\* q.all(): the rows of q under .order_by(Socio.nombre.asc()); rows with
\* equal names come in any order.
deudores(ss, cs, asof) ==
    {f \in Permutaciones(Deudores(ss, cs, asof)) :
        \A i \in DOMAIN f, j \in DOMAIN f :
           i < j => ~StrMenor(f[j].socio_nombre, f[i].socio_nombre)}

\* q_periodos.all(): the rows of q_periodos under
\* .order_by(month_key(Cuota.fecha_venc).asc()).
periodos(cs, asof) ==
    {f \in Permutaciones(PorPeriodo(cs, asof)) :
        \A i \in DOMAIN f, j \in DOMAIN f :
           i < j => ~StrMenor(f[j].periodo, f[i].periodo)}

\* GET /morosidad: two queries on the committed rows, nothing written.
morosidad ==
    UNCHANGED <<usuario, socio, cuota, movimiento, comprobante, disco, hoy, req>>

\* n in decimal digits.
RECURSIVE Decimal(_)
Decimal(n) ==
    IF n < 10 THEN <<DigitChars[n + 1]>>
    ELSE Decimal(n \div 10) \o <<DigitChars[(n % 10) + 1]>>

\* f"{x:.2f}" of an amount without cents.
Fmt2(n) == Decimal(n) \o <<".", "0", "0">>

\* fecha.strftime('%d/%m/%Y') of a date with a year of four digits.
FmtFecha(f) ==
    ZeroPad(f % 100, 2) \o <<"/">> \o ZeroPad(MonthOf(f), 2) \o <<"/">>
       \o ZeroPad(YearOf(f), 4)

\* via = (request.form.get('via') or 'email').lower(); every value other
\* than 'email' takes the WhatsApp branch.
PorEmail(via) ==
    lower(IF via = <<>> THEN <<"e","m","a","i","l">> ELSE via) = <<"e","m","a","i","l">>

\* One total for all the overdue dues, whoever the member.
totales_sin_socio(vencidas) ==
    [sid \in {c.socio_id : c \in vencidas} |-> SumMonto(vencidas)]

\* totales: the sum of the amounts of the overdue dues of each socio_id.
totales(vencidas) ==
    [sid \in {c.socio_id : c \in vencidas} |->
        SumMonto({c \in vencidas : c.socio_id = sid})]

\* The loop that skips a member without contact without counting an error.
Resultado_sin_error_de_contacto(ss, c, via, ok) ==
    IF ~Existe(ss, c.socio_id) THEN "omitida"
    ELSE IF PorEmail(via) /\ ById(ss, c.socio_id).email = <<>> THEN "omitida"
    ELSE IF ~PorEmail(via) /\ ById(ss, c.socio_id).telefono = <<>> THEN "omitida"
    ELSE IF ok THEN "enviado" ELSE "error"

\* What one pass of the loop does with the due c: nothing when its member
\* is gone, an error when the member lacks the contact or the send returns
\* (False, info), a message sent otherwise.
Resultado(ss, c, via, ok) ==
    IF ~Existe(ss, c.socio_id) THEN "omitida"
    ELSE IF PorEmail(via) /\ ById(ss, c.socio_id).email = <<>> THEN "sin email"
    ELSE IF ~PorEmail(via) /\ ById(ss, c.socio_id).telefono = <<>> THEN "sin telefono"
    ELSE IF ok THEN "enviado" ELSE "error"

\* ctx: the variables of the message built for the due c.
Contexto(ss, vencidas, c) ==
    [socio_id |-> c.socio_id,
     nombre |-> ById(ss, c.socio_id).nombre,
     deuda_total |-> Fmt2(totales(vencidas)[c.socio_id]),
     periodo |-> c.periodo,
     vencimiento |-> FmtFecha(c.fecha_venc),
     importe |-> Fmt2(c.monto)]

\* POST /morosidad/recordatorios reads the overdue dues and their members
\* and sends one message per due; it writes no row.
enviar_recordatorios ==
    UNCHANGED <<usuario, socio, cuota, movimiento, comprobante, disco, hoy, req>>

\* ------------------------------------------------------------------ specifications

\* The primary keys a request may name: those in use and one that is not.
CuotaIds == {c.id : c \in cuota} \cup {NextId(cuota)}

\* The primary keys of the dues.
CuotasEnUso == {c.id : c \in cuota}

SocioIds == {s.id : s \in socio} \cup {NextId(socio)}

\* The history entries of the three committing requests: what was asked,
\* the outcome, and the rows as they were before the commit.
RespCuotas(cl) ==
    [op |-> "cuotas", periodo |-> req[cl].periodo,
     ok |-> ~ViolaUnicidad(req[cl].nuevas, cuota),
     creadas |-> req[cl].creadas,
     previa |-> IF resp.op = "cuotas" /\ resp.ok /\ resp.periodo = req[cl].periodo
                THEN <<resp.creadas>> ELSE <<>>]

RespPagar(cl) ==
    [op |-> "pagar_cuota", cuota_id |-> req[cl].c.id,
     antes |-> [c |-> ById(cuota, req[cl].c.id), movimiento |-> movimiento,
                comprobante |-> comprobante],
     tras_revertir |-> /\ resp.op = "revertir_pago"
                       /\ resp.cuota_id = req[cl].c.id
                       /\ resp.antes.c.pagada]

RespRevertir(cl) ==
    [op |-> "revertir_pago", cuota_id |-> req[cl].c.id,
     antes |-> [c |-> ById(cuota, req[cl].c.id)]]

Otro == [op |-> "otro"]

\* One request at a time: a request begins when no other is in progress.
\* resp records the last request that changed the store.
Next ==
    \/ \E a \in BOOLEAN, cm \in Montos :
          AllIdle /\ socios(Nombre1, <<>>, <<>>, a, cm) /\ resp' = Otro
    \/ \E id \in SocioIds, a \in BOOLEAN, cm \in Montos :
          AllIdle /\ editar_socio(id, Nombre1, <<>>, <<>>, a, cm)
                  /\ resp' = IF Existe(socio, id) THEN Otro ELSE resp
    \/ \E id \in SocioIds :
          AllIdle /\ eliminar_socio(id)
                  /\ resp' = IF Existe(socio, id) THEN Otro ELSE resp
    \/ AllIdle /\ morosidad /\ UNCHANGED resp
    \/ AllIdle /\ enviar_recordatorios /\ UNCHANGED resp
    \/ \E cl \in Clientes, p \in Periodos :
          AllIdle /\ cuotas_begin(cl, p) /\ UNCHANGED resp
    \/ \E cl \in Clientes, id \in CuotasEnUso :
          AllIdle /\ pagar_cuota_begin(cl, id) /\ UNCHANGED resp
    \/ \E cl \in Clientes, id \in CuotasEnUso :
          AllIdle /\ revertir_pago_begin(cl, id, TRUE) /\ UNCHANGED resp
    \/ \E cl \in Clientes : cuotas_commit(cl) /\ resp' = RespCuotas(cl)
    \/ \E cl \in Clientes, f \in Archivos :
          pagar_cuota_commit(cl, f, TRUE) /\ resp' = RespPagar(cl)
    \/ \E cl \in Clientes : revertir_pago_commit(cl) /\ resp' = RespRevertir(cl)

Spec == Init /\ [][Next]_vars

\* Requests served at the same time by the sessions of Clientes, for the
\* dues of one member, paid without a receipt; no history is kept.
ConcNext ==
    \/ \E a \in BOOLEAN, cm \in Montos :
          socio = {} /\ socios(Nombre1, <<>>, <<>>, a, cm) /\ UNCHANGED resp
    \/ \E id \in SocioIds, a \in BOOLEAN, cm \in Montos :
          editar_socio(id, Nombre1, <<>>, <<>>, a, cm) /\ UNCHANGED resp
    \/ \E id \in SocioIds : eliminar_socio(id) /\ UNCHANGED resp
    \/ morosidad /\ UNCHANGED resp
    \/ enviar_recordatorios /\ UNCHANGED resp
    \/ \E cl \in Clientes, p \in Periodos : cuotas_begin(cl, p) /\ UNCHANGED resp
    \/ \E cl \in Clientes, id \in CuotasEnUso :
          pagar_cuota_begin(cl, id) /\ UNCHANGED resp
    \/ \E cl \in Clientes, id \in CuotasEnUso :
          revertir_pago_begin(cl, id, TRUE) /\ UNCHANGED resp
    \/ \E cl \in Clientes : cuotas_commit(cl) /\ UNCHANGED resp
    \/ \E cl \in Clientes : cuotas_error(cl) /\ UNCHANGED resp
    \/ \E cl \in Clientes :
          pagar_cuota_commit(cl, <<>>, TRUE) /\ UNCHANGED resp
    \/ \E cl \in Clientes : revertir_pago_commit(cl) /\ UNCHANGED resp

ConcSpec == Init /\ [][ConcNext]_vars

\* The primary keys a request for an entry may name.
MovIds == {m.id : m \in movimiento} \cup {NextId(movimiento)}

\* The history entries of PagoSpec and ReciboSpec: the payment or reversal
\* that finished last, with what it was asked and what it had loaded.
RespPago(cl, archivo) ==
    [op |-> "pagar_cuota", cuota_id |-> req[cl].c.id, archivo |-> archivo]

RespReversion(cl) ==
    [op |-> "revertir_pago", cuota_id |-> req[cl].c.id,
     pagada |-> req[cl].c.pagada, mov |-> req[cl].mov]

\* The payments and reversals of the dues of one member, one request at a
\* time, with changes of the member's amount, entries deleted by hand,
\* unknown ids and the change of day.
PagoNext ==
    \/ \E a \in BOOLEAN, cm \in Montos :
          AllIdle /\ socio = {} /\ socios(Nombre1, <<>>, <<>>, a, cm) /\ UNCHANGED resp
    \/ \E id \in SocioIds, cm \in Importes :
          AllIdle /\ editar_socio(id, Nombre1, <<>>, <<>>, TRUE, cm) /\ UNCHANGED resp
    \/ \E cl \in Clientes, p \in Periodos :
          AllIdle /\ cuotas_begin(cl, p) /\ UNCHANGED resp
    \/ \E cl \in Clientes : cuotas_commit(cl) /\ resp' = Otro
    \/ \E cl \in Clientes, id \in CuotaIds :
          AllIdle /\ pagar_cuota_begin(cl, id) /\ UNCHANGED resp
    \/ \E cl \in Clientes, id \in CuotaIds :
          AllIdle /\ revertir_pago_begin(cl, id, TRUE) /\ UNCHANGED resp
    \/ \E cl \in Clientes : no_encontrado(cl) /\ UNCHANGED resp
    \/ \E cl \in Clientes, f \in Archivos :
          pagar_cuota_commit(cl, f, TRUE) /\ resp' = Otro
    \/ \E cl \in Clientes : revertir_pago_commit(cl) /\ resp' = RespReversion(cl)
    \/ \E id \in MovIds :
          AllIdle /\ eliminar_movimiento(id)
                  /\ resp' = IF Existe(movimiento, id) THEN Otro ELSE resp
    \/ medianoche /\ UNCHANGED resp

PagoSpec == Init /\ [][PagoNext]_vars

\* The payments of the dues of one member, one request at a time, with
\* every kind of receipt and a file store that may fail.
ReciboNext ==
    \/ AllIdle /\ socio = {} /\ socios(Nombre1, <<>>, <<>>, TRUE, 100) /\ UNCHANGED resp
    \/ \E cl \in Clientes, p \in Periodos :
          AllIdle /\ cuotas_begin(cl, p) /\ UNCHANGED resp
    \/ \E cl \in Clientes : cuotas_commit(cl) /\ resp' = Otro
    \/ \E cl \in Clientes, id \in CuotasEnUso :
          AllIdle /\ pagar_cuota_begin(cl, id) /\ UNCHANGED resp
    \/ \E cl \in Clientes, id \in CuotasEnUso :
          AllIdle /\ revertir_pago_begin(cl, id, TRUE) /\ UNCHANGED resp
    \/ \E cl \in Clientes, f \in Recibos, g \in BOOLEAN :
          pagar_cuota_commit(cl, f, g)
          /\ resp' = IF FallaGuardar(f, g) THEN resp ELSE RespPago(cl, f)
    \/ \E cl \in Clientes : pagar_cuota_error(cl) /\ UNCHANGED resp
    \/ \E cl \in Clientes : revertir_pago_commit(cl) /\ resp' = Otro

ReciboSpec == Init /\ [][ReciboNext]_vars

\* Payments and reversals of the dues of one member served at the same
\* time by the sessions of Clientes, on days that pass; no history is kept.
ConcPagoNext ==
    \/ AllIdle /\ socio = {} /\ socios(Nombre1, <<>>, <<>>, TRUE, 100)
               /\ UNCHANGED resp
    \/ \E cl \in Clientes, p \in Periodos :
          AllIdle /\ cuotas_begin(cl, p) /\ UNCHANGED resp
    \/ \E cl \in Clientes : cuotas_commit(cl) /\ UNCHANGED resp
    \/ \E cl \in Clientes, id \in CuotasEnUso :
          pagar_cuota_begin(cl, id) /\ UNCHANGED resp
    \/ \E cl \in Clientes :
          pagar_cuota_commit(cl, <<>>, TRUE) /\ UNCHANGED resp
    \/ \E cl \in Clientes, id \in CuotasEnUso :
          revertir_pago_begin(cl, id, TRUE) /\ UNCHANGED resp
    \/ \E cl \in Clientes : revertir_pago_commit(cl) /\ UNCHANGED resp
    \/ medianoche /\ UNCHANGED resp

ConcPagoSpec == Init /\ [][ConcPagoNext]_vars

\* Payments with a receipt and reversals of the dues of one member, with
\* files that may not be removable, one request at a time.
BorraNext ==
    \/ AllIdle /\ socio = {} /\ socios(Nombre1, <<>>, <<>>, TRUE, 100)
               /\ UNCHANGED resp
    \/ \E cl \in Clientes, p \in Periodos :
          AllIdle /\ cuotas_begin(cl, p) /\ UNCHANGED resp
    \/ \E cl \in Clientes : cuotas_commit(cl) /\ resp' = Otro
    \/ \E cl \in Clientes, id \in CuotasEnUso :
          AllIdle /\ pagar_cuota_begin(cl, id) /\ UNCHANGED resp
    \/ \E cl \in Clientes, f \in Archivos :
          pagar_cuota_commit(cl, f, TRUE) /\ resp' = RespPago(cl, f)
    \/ \E cl \in Clientes, id \in CuotasEnUso, g \in BOOLEAN :
          AllIdle /\ revertir_pago_begin(cl, id, g) /\ UNCHANGED resp
    \/ \E cl \in Clientes : revertir_pago_commit(cl) /\ resp' = RespReversion(cl)

BorraSpec == Init /\ [][BorraNext]_vars

\* The primary keys of the users, and one that is not in use.
UsuarioIds == {u.id : u \in usuario} \cup {NextId(usuario)}

\* The users that hold the role admin, who may ask for a deletion.
Admins == {u \in usuario : u.role = "admin"}

\* Users created and deleted by the admins, the deletions served at the
\* same time by the sessions of Clientes.
UsuarioNext ==
    \/ \E r \in Roles : nuevo_usuario(r) /\ UNCHANGED resp
    \/ \E cl \in Clientes, s \in Admins, uid \in UsuarioIds :
          eliminar_usuario_begin(cl, s.id, uid) /\ UNCHANGED resp
    \/ \E cl \in Clientes : eliminar_usuario_commit(cl) /\ UNCHANGED resp
    \/ \E cl \in Clientes : no_encontrado(cl) /\ UNCHANGED resp

UsuarioSpec == Init /\ [][UsuarioNext]_vars

\* The history entry of GET /movimientos/<id>/eliminar.
RespEliminar(mov_id) == [op |-> "eliminar_movimiento", mov_id |-> mov_id]

\* The ledger of the dues of one member next to manual entries: payments
\* with receipts, reversals and manual deletions, one request at a time.
LibroNext ==
    \/ AllIdle /\ socio = {} /\ socios(Nombre1, <<>>, <<>>, TRUE, 100)
               /\ UNCHANGED resp
    \/ \E cl \in Clientes, p \in Periodos :
          AllIdle /\ cuotas_begin(cl, p) /\ UNCHANGED resp
    \/ \E cl \in Clientes : cuotas_commit(cl) /\ resp' = Otro
    \/ \E t \in Tipos, i \in Importes :
          AllIdle /\ movimientos(t, i) /\ resp' = Otro
    \/ \E cl \in Clientes, id \in CuotasEnUso :
          AllIdle /\ pagar_cuota_begin(cl, id) /\ UNCHANGED resp
    \/ \E cl \in Clientes, f \in Archivos :
          pagar_cuota_commit(cl, f, TRUE) /\ resp' = RespPago(cl, f)
    \/ \E cl \in Clientes, id \in CuotasEnUso :
          AllIdle /\ revertir_pago_begin(cl, id, TRUE) /\ UNCHANGED resp
    \/ \E cl \in Clientes : revertir_pago_commit(cl) /\ resp' = RespReversion(cl)
    \/ \E m \in movimiento :
          AllIdle /\ eliminar_movimiento(m.id) /\ resp' = RespEliminar(m.id)

LibroSpec == Init /\ [][LibroNext]_vars

\* The history entry of a payment in GenSpec: the due paid and the
\* cuota_mensual its member had when the payment committed.
RespPagoSocio(cl) ==
    [op |-> "pagar_cuota", cuota_id |-> req[cl].c.id,
     cuota_mensual |-> {s.cuota_mensual : s \in {t \in socio : t.id = req[cl].c.socio_id}}]

\* The dues of one member whose amount and state are edited, generated for
\* every kind of period string and paid, one request at a time.
GenNext ==
    \/ \E a \in BOOLEAN, cm \in Importes :
          AllIdle /\ socio = {} /\ socios(Nombre1, <<>>, <<>>, a, cm) /\ resp' = Otro
    \/ \E s \in socio, a \in BOOLEAN, cm \in Importes :
          AllIdle /\ editar_socio(s.id, Nombre1, <<>>, <<>>, a, cm) /\ resp' = Otro
    \/ \E cl \in Clientes, p \in PeriodosCrudos :
          AllIdle /\ cuotas_begin(cl, p) /\ UNCHANGED resp
    \/ \E cl \in Clientes : cuotas_commit(cl) /\ resp' = RespCuotas(cl)
    \/ \E cl \in Clientes, id \in CuotasEnUso :
          AllIdle /\ pagar_cuota_begin(cl, id) /\ UNCHANGED resp
    \/ \E cl \in Clientes :
          pagar_cuota_commit(cl, <<>>, TRUE) /\ resp' = RespPagoSocio(cl)

GenSpec == Init /\ [][GenNext]_vars

\* The history entry of GET /morosidad: the day and the two lists rendered.
RespMorosidad(d, p) ==
    [op |-> "morosidad", hoy |-> hoy, deudores |-> d, periodos |-> p]

\* The application started on any of the reference dates.
MoroInit ==
    /\ usuario = {Admin}
    /\ socio = {}
    /\ cuota = {}
    /\ movimiento = {}
    /\ comprobante = {}
    /\ disco = {}
    /\ hoy \in AsOfs
    /\ req = [cl \in Clientes |-> Idle]
    /\ resp = [op |-> "none"]

\* The delinquency report over the dues of members with names, generated,
\* paid and left behind by deleted members, one request at a time.
MoroNext ==
    \/ \E n \in Nombres :
          AllIdle /\ socios(n, <<>>, <<>>, TRUE, 100) /\ resp' = Otro
    \/ \E s \in socio :
          AllIdle /\ eliminar_socio(s.id) /\ resp' = Otro
    \/ \E cl \in Clientes, p \in Periodos :
          AllIdle /\ cuotas_begin(cl, p) /\ UNCHANGED resp
    \/ \E cl \in Clientes : cuotas_commit(cl) /\ resp' = Otro
    \/ \E cl \in Clientes, id \in CuotasEnUso :
          AllIdle /\ pagar_cuota_begin(cl, id) /\ UNCHANGED resp
    \/ \E cl \in Clientes : pagar_cuota_commit(cl, <<>>, TRUE) /\ resp' = Otro
    \/ \E d \in deudores(socio, cuota, hoy), p \in periodos(cuota, hoy) :
          AllIdle /\ morosidad /\ resp' = RespMorosidad(d, p)

MoroSpec == MoroInit /\ [][MoroNext]_vars

\* The outcomes of the sends of a batch, one for each due.
Entregas == [1..MaxCuotas -> BOOLEAN]

\* The history entry of POST /morosidad/recordatorios: the counters of the
\* flash message, the errors collected and the contexts of the messages
\* handed to send_email or send_whatsapp.
RespRecordatorios(via, ok) ==
    LET vencidas == Vencidas(cuota, hoy)
        res(c) == Resultado(socio, c, via, ok[c.id])
    IN  [op |-> "enviar_recordatorios", via |-> via, hoy |-> hoy,
         enviados |-> Cardinality({c \in vencidas : res(c) = "enviado"}),
         errores |-> {[cuota_id |-> c.id, motivo |-> res(c)] :
                        c \in {v \in vencidas : res(v) \notin {"omitida", "enviado"}}},
         mensajes |-> {Contexto(socio, vencidas, c) :
                        c \in {v \in vencidas : res(v) \in {"enviado", "error"}}}]

\* The reminders for the dues of members with or without email and
\* telephone, some of them deleted, one request at a time.
RecNext ==
    \/ \E e \in Emails, t \in Telefonos :
          AllIdle /\ socios(Nombre1, e, t, TRUE, 100) /\ resp' = Otro
    \/ \E s \in socio :
          AllIdle /\ eliminar_socio(s.id) /\ resp' = Otro
    \/ \E cl \in Clientes, p \in Periodos :
          AllIdle /\ cuotas_begin(cl, p) /\ UNCHANGED resp
    \/ \E cl \in Clientes : cuotas_commit(cl) /\ resp' = Otro
    \/ \E cl \in Clientes, id \in CuotasEnUso :
          AllIdle /\ pagar_cuota_begin(cl, id) /\ UNCHANGED resp
    \/ \E cl \in Clientes : pagar_cuota_commit(cl, <<>>, TRUE) /\ resp' = Otro
    \/ \E via \in Vias, ok \in Entregas :
          AllIdle /\ enviar_recordatorios /\ resp' = RespRecordatorios(via, ok)

RecSpec == MoroInit /\ [][RecNext]_vars

\* ------------------------------------------------------------------ claims

\* The step in which session cl finishes its request op.
Fin(cl, op) == req[cl].op = op /\ req'[cl] # req[cl]

SumDeuda(rows) == SumMonto({[id |-> r.socio_id, monto |-> r.deuda_total] : r \in rows})

SumImporte(rows) == SumMonto({[id |-> r.periodo, monto |-> r.importe] : r \in rows})

\* C1: when a payment of a due commits, exactly one entry with origen
\* 'cuota' refers to that due (so a second payment of the same due posts
\* nothing).
C1_UnMovimientoPorPago ==
    [][\A cl \in Clientes :
          Fin(cl, "pagar_cuota") =>
             Cardinality(MovsCuota(movimiento', req[cl].c.id)) = 1]_vars

\* C2: a payment that read the due unpaid and commits after another payment
\* of the same due has committed (the loser of the race) posts no entry.
C2_PerdedorNoAsienta ==
    [][\A cl \in Clientes :
          (/\ Fin(cl, "pagar_cuota")
           /\ ~req[cl].c.pagada
           /\ ById(cuota, req[cl].c.id).pagada)
          => movimiento' = movimiento]_vars

\* C3: in every committed state a due is paid if and only if some entry with
\* origen 'cuota' refers to it.
C3_PagadaSiiMovimiento ==
    \A c \in cuota : c.pagada <=> MovsCuota(movimiento, c.id) # {}

\* C4: a reversal that follows the payment of a due that was unpaid leaves
\* the due unpaid without payment date, no entry with origen 'cuota' and no
\* receipt for it, and the entries and receipts as they were before the
\* payment.
C4_PagarRevertir ==
    [][\A cl \in Clientes :
          (/\ Fin(cl, "revertir_pago")
           /\ resp.op = "pagar_cuota"
           /\ resp.cuota_id = req[cl].c.id
           /\ ~resp.antes.c.pagada)
          => LET d == req[cl].c.id
             IN  /\ ~ById(cuota', d).pagada
                 /\ ById(cuota', d).fecha_pago = <<>>
                 /\ MovsCuota(movimiento', d) = {}
                 /\ CompsCuota(comprobante', d) = {}
                 /\ movimiento' = resp.antes.movimiento
                 /\ comprobante' = resp.antes.comprobante]_vars

\* C5: no two rows of cuota have the same member and the same period.
C5_UnicaPorSocioPeriodo ==
    \A a \in cuota, b \in cuota :
       (a.socio_id = b.socio_id /\ a.periodo = b.periodo) => a = b

\* C5 witness: a /cuotas request that had found no due for a member has
\* tried to commit its row after another request committed a due for that
\* member and period, and the database has rejected it.
C5_Carrera ==
    /\ \E cl \in Clientes : req[cl].op = "IntegrityError"
    /\ cuota # {}

\* C6: a /cuotas request for the period of the /cuotas request before it,
\* with no change of the store between them, succeeds, adds no row and
\* reports zero.
C6_Idempotente ==
    [][\A cl \in Clientes :
          (/\ Fin(cl, "cuotas")
           /\ resp.op = "cuotas" /\ resp.ok
           /\ resp.periodo = req[cl].periodo)
          => /\ req'[cl] = Idle
             /\ cuota' = cuota
             /\ req[cl].creadas = 0
             /\ resp'.ok /\ resp'.creadas = 0]_vars

\* C6 witness: the second of two /cuotas requests for a period has
\* finished; the first had created dues.
C6_DosVeces ==
    /\ resp.op = "cuotas"
    /\ resp.previa # <<>>
    /\ resp.previa[1] > 0
    /\ resp.creadas = 0

\* C7: every row that enters cuota belongs to a member that is active and
\* has a positive cuota_mensual.
C7_SoloActivosConCuota ==
    [][\A c \in cuota' :
          ~Existe(cuota, c.id) =>
             \E s \in socio :
                s.id = c.socio_id /\ s.activo /\ s.cuota_mensual > 0]_vars

\* C7 witness: /cuotas has created dues for a period while a member that is
\* inactive or has cuota_mensual 0 was registered, and that member has no
\* due for the period.
C7_HayExcluido ==
    /\ resp.op = "cuotas" /\ resp.ok /\ resp.creadas > 0
    /\ \E s \in socio :
          /\ ~(s.activo /\ s.cuota_mensual > 0)
          /\ ~ExisteCuota(cuota, s.id, resp.periodo)

\* C8: for every reference date, a due that is paid or whose due date is on
\* or after that date contributes nothing to either query of morosidad: the
\* results are those of the table without it.
C8_SoloImpagasVencidas ==
    \A asof \in AsOfs : \A c \in cuota :
       (c.pagada \/ c.fecha_venc >= asof) =>
          /\ Deudores(socio, cuota \ {c}, asof) = Deudores(socio, cuota, asof)
          /\ PorPeriodo(cuota \ {c}, asof) = PorPeriodo(cuota, asof)

\* C8 witness: for some reference date there are a paid due that was due
\* before it, a due that falls due on a reference date, and an unpaid
\* overdue due that the queries report.
C8_HayPagadaYVencida ==
    \E asof \in AsOfs : \E c1 \in cuota, c2 \in cuota :
       /\ c1.pagada /\ c1.fecha_venc < asof
       /\ ~c2.pagada /\ c2.fecha_venc < asof /\ c2.fecha_venc \in AsOfs
       /\ Deudores(socio, cuota, asof) # {}
       /\ PorPeriodo(cuota, asof) # {}

\* C9: for every reference date the totals by period add up to the totals
\* by member.
C9_SumasIguales ==
    \A asof \in AsOfs :
       SumImporte(PorPeriodo(cuota, asof)) = SumDeuda(Deudores(socio, cuota, asof))

\* C10: a due enters the table unpaid; its paid flag turns true only in the
\* commit of a payment of that due and turns false only in the commit of a
\* reversal of that due.
C10_Transiciones ==
    [][\A c2 \in cuota' :
          IF ~Existe(cuota, c2.id)
          THEN ~c2.pagada /\ c2.fecha_pago = <<>>
          ELSE LET c1 == ById(cuota, c2.id)
               IN  c1.pagada # c2.pagada =>
                      \E cl \in Clientes :
                         /\ Fin(cl, IF c2.pagada THEN "pagar_cuota"
                                                 ELSE "revertir_pago")
                         /\ req[cl].c.id = c2.id]_vars

\* C10 witness: a due that was paid and reversed has been paid again.
C10_Ciclo ==
    /\ resp.op = "pagar_cuota"
    /\ resp.tras_revertir
    /\ ~resp.antes.c.pagada
    /\ ById(cuota, resp.cuota_id).pagada

\* C11: a payment or a reversal that names a due id that does not exist is
\* answered with 404 (and one that names an existing id loads that due), and
\* neither the 404 nor its response changes a due, an entry, a receipt or a
\* file.
C11_NoEncontrado ==
    [][\A cl \in Clientes :
          /\ (req[cl].op = "NotFound" \/ req'[cl].op = "NotFound")
                => UNCHANGED <<socio, cuota, movimiento, comprobante, disco>>
          /\ (req[cl] = Idle /\ req'[cl].op \in {"pagar_cuota", "revertir_pago"})
                => /\ Existe(cuota, req'[cl].id)
                   /\ req'[cl].c = ById(cuota, req'[cl].id)
          /\ (req[cl] = Idle /\ req'[cl].op = "NotFound")
                => ~Existe(cuota, req'[cl].id)]_vars

\* C11 witness: a reversal has been answered with 404 while a paid due with
\* its entry and a receipt is in the store.
C11_Hay404 ==
    /\ \E cl \in Clientes :
          req[cl].op = "NotFound" /\ req[cl].ruta = "revertir_pago"
    /\ \E c \in cuota :
          /\ c.pagada
          /\ MovsCuota(movimiento, c.id) # {}
          /\ CompsCuota(comprobante, c.id) # {}
\* The entries that a step adds to the ledger.
MovsNuevos == {m \in movimiento' : ~Existe(movimiento, m.id)}

\* C12: the commit of a payment of due d adds one entry, with tipo
\* 'ingreso', categoria 'Cuotas socios', origen 'cuota', the member and the
\* id of d, the amount stored in d and the date of today, and that date is
\* the payment date written to d.
C12_AsientoDelPago ==
    [][\A cl \in Clientes :
          (Fin(cl, "pagar_cuota") /\ req'[cl] = Idle)
          => LET d == ById(cuota, req[cl].id)
             IN  /\ Cardinality(MovsNuevos) = 1
                 /\ \A m \in MovsNuevos :
                       /\ m.tipo = "ingreso"
                       /\ m.categoria = "Cuotas socios"
                       /\ m.origen = "cuota"
                       /\ m.socio_id = <<d.socio_id>>
                       /\ m.cuota_id = <<d.id>>
                       /\ m.monto = d.monto
                       /\ m.fecha = hoy
                       /\ ById(cuota', d.id).fecha_pago = <<m.fecha>>]_vars

\* The receipts that a step adds.
CompsNuevos == {k \in comprobante' : ~Existe(comprobante, k.id)}

\* The name ends with a dot and one of pdf, jpg, jpeg, png, in any case.
ExtPermitida(f) ==
    \E e \in { <<"p","d","f">>, <<"j","p","g">>, <<"j","p","e","g">>, <<"p","n","g">> } :
       /\ Len(f) > Len(e)
       /\ f[Len(f) - Len(e)] = "."
       /\ lower(SubSeq(f, Len(f) - Len(e) + 1, Len(f))) = e

\* C13: a payment that commits marks the due paid and adds its entry
\* whatever the receipt; with no receipt or a receipt whose extension is not
\* pdf, jpg, jpeg or png it adds no receipt row and no file, and with a
\* receipt whose extension is one of those it adds exactly one receipt row,
\* linked to the due.
C13_ComprobanteSegunExtension ==
    [][\A cl \in Clientes :
          (Fin(cl, "pagar_cuota") /\ req'[cl] = Idle)
          => LET d == req[cl].id
                 f == resp'.archivo
             IN  /\ ById(cuota', d).pagada
                 /\ Cardinality(MovsNuevos) = 1
                 /\ \A m \in MovsNuevos : m.cuota_id = <<d>> /\ m.origen = "cuota"
                 /\ IF f # <<>> /\ ExtPermitida(f)
                    THEN /\ Cardinality(CompsNuevos) = 1
                         /\ \A k \in CompsNuevos :
                               k.cuota_id = <<d>> /\ k.mov_id = <<>>
                         /\ comprobante \subseteq comprobante'
                    ELSE comprobante' = comprobante /\ disco' = disco]_vars

\* C13 witness: the last payment carried a receipt with another extension
\* and left its due paid with an entry and without a receipt, while another
\* due has the receipt of its payment.
C13_HayRechazado ==
    /\ resp.op = "pagar_cuota"
    /\ resp.archivo # <<>> /\ ~ExtPermitida(resp.archivo)
    /\ ById(cuota, resp.cuota_id).pagada
    /\ MovsCuota(movimiento, resp.cuota_id) # {}
    /\ CompsCuota(comprobante, resp.cuota_id) = {}
    /\ \E c \in cuota : c.pagada /\ CompsCuota(comprobante, c.id) # {}

\* C14: when the write of the receipt file fails, the request ends in an
\* error and neither it nor its response changes a due, an entry or a
\* receipt row; and every receipt row that a step adds names a file that is
\* in the file store when the step commits.
C14_FalloAlGuardar ==
    [][/\ \A cl \in Clientes :
             (req[cl].op = "OSError" \/ req'[cl].op = "OSError")
                => UNCHANGED <<cuota, movimiento, comprobante>>
       /\ \A k \in CompsNuevos : k.filename \in disco']_vars

\* C14 witness: the write of the receipt of a payment of an unpaid due has
\* failed, and another due has been paid with a receipt.
C14_HayFallo ==
    /\ \E cl \in Clientes :
          /\ req[cl].op = "OSError"
          /\ ~ById(cuota, req[cl].id).pagada
          /\ MovsCuota(movimiento, req[cl].id) = {}
    /\ \E k \in comprobante : k.filename \in disco

\* C15: a reversal of an existing due is never answered with an error: it
\* is refused with 404 only for an id that does not exist, and it ends by
\* committing, with the due unpaid and without payment date, whether or not
\* an entry with origen 'cuota' referred to the due and whether or not the
\* due was paid.
C15_RevertirSiempre ==
    [][\A cl \in Clientes :
          /\ (req[cl] = Idle /\ req'[cl].op = "NotFound"
                             /\ req'[cl].ruta = "revertir_pago")
                => ~Existe(cuota, req'[cl].id)
          /\ (req[cl].op = "revertir_pago" /\ req'[cl] # req[cl])
                => /\ req'[cl] = Idle
                   /\ ~ById(cuota', req[cl].id).pagada
                   /\ ById(cuota', req[cl].id).fecha_pago = <<>>]_vars

\* C15 witness: a reversal has finished for a due that was paid and had no
\* entry (the entry had been deleted by hand), and the due is unpaid.
C15_SinMovimiento ==
    /\ resp.op = "revertir_pago"
    /\ resp.pagada /\ resp.mov = <<>>
    /\ ~ById(cuota, resp.cuota_id).pagada

\* C16: a /cuotas request that finishes reports the number of Cuota rows
\* its commit inserted, which is the number of active members with a
\* positive cuota_mensual that had no Cuota for the period; when there is no
\* such member it reports zero, inserts nothing and succeeds.
C16_CreadasExactas ==
    [][\A cl \in Clientes :
          Fin(cl, "cuotas") =>
             LET elegibles ==
                   {s \in socio :
                      /\ s.activo /\ s.cuota_mensual > 0
                      /\ ~\E c \in cuota : /\ c.socio_id = s.id
                                           /\ c.periodo = req[cl].periodo}
             IN  /\ req'[cl] = Idle
                 /\ resp'.op = "cuotas" /\ resp'.ok
                 /\ resp'.creadas = Cardinality(cuota' \ cuota)
                 /\ resp'.creadas = Cardinality(elegibles)
                 /\ elegibles = {} => cuota' = cuota /\ resp'.creadas = 0]_vars

\* C16 witness: a /cuotas request has reported one row created while two
\* members were active with a positive cuota_mensual: the other one had its
\* Cuota for the period.
C16_UnaDeDos ==
    /\ resp.op = "cuotas" /\ resp.ok
    /\ resp.creadas = 1
    /\ Cardinality(Activos(socio)) = 2
    /\ \E s \in Activos(socio) :
          Cardinality({c \in cuota : c.socio_id = s.id /\ c.periodo = resp.periodo}) = 1

\* C17: every Cuota row a /cuotas request inserts carries the period string
\* of the request, the cuota_mensual its member has at that time, the 10th
\* day of the year and month of the period as due date, pagada false and no
\* payment date.
C17_CamposDeLaCuota ==
    [][\A c \in {n \in cuota' : ~Existe(cuota, n.id)} :
          \E cl \in Clientes :
             /\ Fin(cl, "cuotas")
             /\ c.periodo = req[cl].periodo
             /\ \E s \in socio : s.id = c.socio_id /\ c.monto = s.cuota_mensual
             /\ LET parts == split(req[cl].periodo, "-")
                    y == int(parts[1])
                    m == int(parts[2])
                IN  /\ c.fecha_venc = y * 10000 + m * 100 + Min(10, ultimo_dia_mes(y, m))
                    /\ c.fecha_venc % 100 = 10
             /\ ~c.pagada
             /\ c.fecha_pago = <<>>]_vars

\* C17 witness: a /cuotas request has inserted a due of 150 for February
\* 2024, due on the 10th.
C17_CuotaDeFebrero ==
    /\ resp.op = "cuotas" /\ resp.ok /\ resp.creadas = 1
    /\ resp.periodo = <<"2","0","2","4","-","0","2">>
    /\ \E c \in cuota : /\ c.periodo = resp.periodo
                        /\ c.monto = 150
                        /\ c.fecha_venc = 20240210
                        /\ ~c.pagada

\* C18: a step that changes a member or finishes a /cuotas request leaves
\* every existing Cuota row as it was (amount, due date, paid flag), and the
\* entry a payment posts carries the amount stored in the due, whatever the
\* cuota_mensual of the member is by then.
C18_MontoFijado ==
    [][/\ (socio' # socio \/ \E cl \in Clientes : Fin(cl, "cuotas"))
            => \A c \in cuota : c \in cuota'
       /\ \A cl \in Clientes :
            Fin(cl, "pagar_cuota") =>
               /\ ById(cuota', req[cl].id).monto = ById(cuota, req[cl].id).monto
               /\ \A m \in MovsNuevos :
                     m.monto = ById(cuota, req[cl].id).monto]_vars

\* C18 witness: a payment has committed for a due of 100 whose member had
\* by then a cuota_mensual of 150, and the entry posted is of 100.
C18_PagoTrasEditar ==
    /\ resp.op = "pagar_cuota"
    /\ resp.cuota_mensual = {150}
    /\ ById(cuota, resp.cuota_id).monto = 100
    /\ ById(cuota, resp.cuota_id).pagada
    /\ \E m \in movimiento : m.cuota_id = <<resp.cuota_id>> /\ m.monto = 100

\* The format 'YYYY-MM' of the periodo form field: four digits, a dash and
\* the two digits of a month from 01 to 12.
FormatoAAAAMM(periodo) ==
    /\ Len(periodo) = 7
    /\ \A i \in {1, 2, 3, 4, 6, 7} : IsDigit(periodo[i])
    /\ periodo[5] = "-"
    /\ int(SubSeq(periodo, 6, 7)) \in 1..12

\* C20: a /cuotas request whose period is not of the form 'YYYY-MM' with a
\* month from 01 to 12 is rejected before anything is added, so that no
\* Cuota row carries such a period.
C20_PeriodoMalFormado ==
    \A c \in cuota : FormatoAAAAMM(c.periodo)

\* C19: the first list of GET /morosidad has exactly one row for each member
\* with an unpaid due that fell due before today, with the member's name,
\* the sum of the amounts of those dues and their number, in ascending
\* order of the name; the second list has exactly one row for each year and
\* month in which an unpaid due fell due before today, with the sum of the
\* amounts, in ascending order of the 'YYYY-MM' string.
C19_ListasDeMorosidad ==
    resp.op = "morosidad" =>
       LET d == resp.deudores
           p == resp.periodos
           venc == {c \in cuota : ~c.pagada /\ c.fecha_venc < resp.hoy}
           de(s) == {c \in venc : c.socio_id = s.id}
           mes(c) == c.fecha_venc \div 100
           en(k) == {c \in venc : mes(c) = k}
           clave(k) == ZeroPad(k \div 100, 4) \o <<"-">> \o ZeroPad(k % 100, 2)
       IN  /\ \A s \in socio :
                Cardinality({i \in DOMAIN d : d[i].socio_id = s.id})
                   = IF de(s) = {} THEN 0 ELSE 1
           /\ \A i \in DOMAIN d :
                \E s \in socio :
                   /\ d[i].socio_id = s.id
                   /\ d[i].socio_nombre = s.nombre
                   /\ d[i].deuda_total = SumMonto(de(s))
                   /\ d[i].cuotas_vencidas = Cardinality(de(s))
           /\ \A i \in DOMAIN d, j \in DOMAIN d :
                i < j => ~StrMenor(d[j].socio_nombre, d[i].socio_nombre)
           /\ \A k \in {mes(c) : c \in venc} :
                Cardinality({i \in DOMAIN p : p[i].periodo = clave(k)}) = 1
           /\ \A i \in DOMAIN p :
                \E k \in {mes(c) : c \in venc} :
                   /\ p[i].periodo = clave(k)
                   /\ p[i].importe = SumMonto(en(k))
           /\ \A i \in DOMAIN p, j \in DOMAIN p :
                i < j => StrMenor(p[i].periodo, p[j].periodo)

\* C19 witness: the report for Ana, with two unpaid dues of 100 due on
\* 2024-01-10 and 2024-02-10, is (Ana, 200, 2) and (2024-01, 100),
\* (2024-02, 100).
C19_EjemploAna ==
    /\ resp.op = "morosidad"
    /\ Len(resp.deudores) = 1
    /\ resp.deudores[1].socio_nombre = <<"A","n","a">>
    /\ resp.deudores[1].deuda_total = 200
    /\ resp.deudores[1].cuotas_vencidas = 2
    /\ resp.periodos = << [periodo |-> <<"2","0","2","4","-","0","1">>, importe |-> 100],
                          [periodo |-> <<"2","0","2","4","-","0","2">>, importe |-> 100] >>

\* C21: a reminder batch always runs to its end, and the number of messages
\* it reports as sent plus the number of errors it reports is the number of
\* unpaid dues that fell due before today and whose member exists, whatever
\* contacts are missing and whatever sends fail.
C21_EnviadosMasErrores ==
    resp.op = "enviar_recordatorios" =>
       resp.enviados + Cardinality(resp.errores)
          = Cardinality({c \in cuota :
                           /\ ~c.pagada /\ c.fecha_venc < resp.hoy
                           /\ \E s \in socio : s.id = c.socio_id})

\* C21 witness: a batch has ended with one message sent and one error.
C21_UnoYUno ==
    /\ resp.op = "enviar_recordatorios"
    /\ resp.enviados = 1
    /\ Cardinality(resp.errores) = 1

\* C26: in every message of a reminder batch deuda_total is the total that
\* the first list of morosidad gives today for the member, and periodo,
\* vencimiento and importe are those of one unpaid due of that member that
\* fell due before today.
C26_ContextoDelMensaje ==
    resp.op = "enviar_recordatorios" =>
       \A m \in resp.mensajes :
          /\ \E r \in Deudores(socio, cuota, resp.hoy) :
                /\ r.socio_id = m.socio_id
                /\ m.deuda_total = Fmt2(r.deuda_total)
          /\ \E c \in cuota :
                /\ c.socio_id = m.socio_id
                /\ ~c.pagada /\ c.fecha_venc < resp.hoy
                /\ m.periodo = c.periodo
                /\ m.vencimiento = FmtFecha(c.fecha_venc)
                /\ m.importe = Fmt2(c.monto)

\* C26 witness: a message for a member with one overdue due of 100, while
\* another member also has an overdue due.
C26_DosDeudores ==
    /\ resp.op = "enviar_recordatorios"
    /\ \E m \in resp.mensajes :
          m.deuda_total = <<"1","0","0",".","0","0">>
    /\ Cardinality(Deudores(socio, cuota, resp.hoy)) = 2

\* C22: in every state the socio_id of every Cuota row and of every ledger
\* entry that has one is the id of an existing member.
C22_ReferenciasASocio ==
    /\ \A c \in cuota : Existe(socio, c.socio_id)
    /\ \A m \in movimiento :
          m.socio_id # <<>> => Existe(socio, m.socio_id[1])

\* C28: in every state the amounts of the ledger entries with origen
\* 'cuota' add up to the amounts of the dues marked paid.
C28_Conciliacion ==
    SumMonto({m \in movimiento : m.origen = "cuota"})
       = SumMonto({c \in cuota : c.pagada})

\* C29: the period stored in every Cuota row is the 'YYYY-MM' of its due
\* date, and no two Cuota rows of a member fall due in the same calendar
\* month.
C29_PeriodoEsMesDeVencimiento ==
    /\ \A c \in cuota : c.periodo = month_key(c.fecha_venc)
    /\ \A c1 \in cuota, c2 \in cuota :
          (/\ c1.socio_id = c2.socio_id
           /\ c1.fecha_venc \div 100 = c2.fecha_venc \div 100) => c1 = c2

\* C23: in every state a Cuota row has a payment date if and only if it is
\* marked paid.
C23_FechaSiiPagada ==
    \A c \in cuota : c.pagada <=> c.fecha_pago # <<>>

\* The ledger entries that a step deletes.
MovsBorrados == {m \in movimiento : ~Existe(movimiento', m.id)}

\* C24: the commit of a reversal of due d deletes at most one ledger entry,
\* and the entry it deletes has origen 'cuota' and refers to d: no manual
\* entry and no entry of another due is deleted, and every other entry
\* stays as it was.
C24_SoloAsientosDeLaCuota ==
    [][\A cl \in Clientes :
          Fin(cl, "revertir_pago") =>
             /\ Cardinality(MovsBorrados) <= 1
             /\ \A b \in MovsBorrados :
                   b.origen = "cuota" /\ b.cuota_id = <<req[cl].id>>
             /\ movimiento' = movimiento \ MovsBorrados]_vars

\* C25: a reversal of an existing due is never stopped by the file store:
\* no reversal ends with the error of a file operation, and its commit
\* leaves no receipt row that refers to the due, whether the files were
\* removed, could not be removed or were already missing.
C25_ComprobantesBorrados ==
    [][\A cl \in Clientes :
          /\ req'[cl].op = "OSError" => req[cl].op = "pagar_cuota"
          /\ Fin(cl, "revertir_pago")
                => /\ req'[cl] = Idle
                   /\ CompsCuota(comprobante', req[cl].id) = {}]_vars

\* C25 witness: a reversal has committed for a due whose receipt file is
\* still in the upload folder (os.remove failed), and no receipt row refers
\* to the due.
C25_ArchivoQueda ==
    /\ resp.op = "revertir_pago"
    /\ CompsCuota(comprobante, resp.cuota_id) = {}
    /\ \E f \in disco : f[1] = resp.cuota_id

\* C27: a ledger entry leaves the ledger only in the commit of a reversal
\* of the due it refers to or in the manual deletion of that entry, no
\* receipt row linked to it through mov_id is left behind, and in every
\* state the mov_id of a receipt row that has one is the id of an entry.
C27_BajaDeAsientos ==
    [][/\ \A m \in MovsBorrados :
            /\ \/ \E cl \in Clientes :
                     /\ Fin(cl, "revertir_pago")
                     /\ m.origen = "cuota"
                     /\ m.cuota_id = <<req[cl].id>>
               \/ resp'.op = "eliminar_movimiento" /\ resp'.mov_id = m.id
            /\ CompsMov(comprobante', m.id) = {}
       /\ \A k \in comprobante' :
            k.mov_id # <<>> => Existe(movimiento', k.mov_id[1])]_vars

\* C30: in every state at least one user holds the role admin.
C30_QuedaUnAdmin ==
    \E u \in usuario : u.role = "admin"

====
